---- MODULE Spec2Model ----
(***************************************************************************)
(* Model of pricing_engine.py: PricingEngine.normalize_product_code and    *)
(* PricingEngine.get_best_price over a list of PriceEntry records and the  *)
(* two customer mappings.                                                   *)
(*                                                                          *)
(* Python values are tagged records: [t |-> "int", i |-> n],                *)
(* [t |-> "str", s |-> chars] and [t |-> "none"].  A str is the sequence of *)
(* its characters, so that upper(), startswith(), isdigit(), int() and the  *)
(* 03d format are computed and not assumed.  The token "^2" stands for the  *)
(* character U+00B2 (superscript two), a character for which isdigit() is   *)
(* true and int() raises ValueError.                                        *)
(***************************************************************************)
EXTENDS Integers, Sequences, FiniteSets, TLC

VARIABLES prices, customer_tiers, customer_groups, history, raw, norm

vars == <<prices, customer_tiers, customer_groups, history, raw, norm>>

-----------------------------------------------------------------------------
(* Python values *)

PyInt(n) == [t |-> "int", i |-> n]

PyStr(cs) == [t |-> "str", s |-> cs]

PyNone == [t |-> "none"]

IsInt(v) == v.t = "int"

IsStr(v) == v.t = "str"

-----------------------------------------------------------------------------
(* str methods and number formatting used by normalize_product_code *)

DecimalChars == <<"0", "1", "2", "3", "4", "5", "6", "7", "8", "9">>

DecimalDigits == {DecimalChars[k] : k \in 1..10}

\* characters c with c.isdigit(): the decimal digits and U+00B2
IsDigitChar(c) == c \in DecimalDigits \/ c = "^2"

DigitValue(c) == (CHOOSE k \in 1..10 : DecimalChars[k] = c) - 1

UpperChar(c) ==
    CASE c = "p" -> "P"
      [] c = "x" -> "X"
      [] OTHER -> c

\* str.upper()
Upper(cs) == [k \in 1..Len(cs) |-> UpperChar(cs[k])]

\* str.startswith(prefix) for a one-character prefix
StartsWith(cs, c) == Len(cs) >= 1 /\ cs[1] = c

\* str.isdigit(): non-empty and every character a digit
IsDigit(cs) == Len(cs) >= 1 /\ \A k \in 1..Len(cs) : IsDigitChar(cs[k])

\* int(s) succeeds on a string that passed isdigit() only if every character
\* is a decimal digit
IntParses(cs) == \A k \in 1..Len(cs) : cs[k] \in DecimalDigits

RECURSIVE ParseInt(_)
ParseInt(cs) ==
    IF cs = <<>> THEN 0
    ELSE 10 * ParseInt(SubSeq(cs, 1, Len(cs) - 1)) + DigitValue(cs[Len(cs)])

\* str(n) for n >= 0
RECURSIVE Digits(_)
Digits(n) ==
    IF n < 10 THEN <<DecimalChars[n + 1]>>
    ELSE Append(Digits(n \div 10), DecimalChars[(n % 10) + 1])

RECURSIVE ZeroPad(_, _)
ZeroPad(cs, width) == IF Len(cs) >= width THEN cs ELSE ZeroPad(<<"0">> \o cs, width)

\* a plausible slip: exactly three digits are kept
Format03d_Truncates(n) ==
    IF n < 0 THEN <<"-">> \o ZeroPad(Digits((-n) % 100), 2) ELSE ZeroPad(Digits(n % 1000), 3)

\* format(n, "03d"): the sign counts towards the width of 3
Format03d(n) ==
    IF n < 0 THEN <<"-">> \o ZeroPad(Digits(-n), 2) ELSE ZeroPad(Digits(n), 3)

-----------------------------------------------------------------------------
(* Outcomes: a returned value or a raised exception *)

Returned(v) == [exc |-> "none", value |-> v]

InvalidProductId(product_id) ==
    [exc |-> "PricingError", msg |-> "Invalid product_id: ", product_id |-> product_id]

ValueErrorRaised(product_id) == [exc |-> "ValueError", literal |-> product_id]

\* the normalizer has not been called yet
NotCalled == [exc |-> "not called"]

normalize_product_code(product_id) ==
    IF IsInt(product_id)
    THEN Returned(<<"P">> \o Format03d(product_id.i))
    ELSE IF IsStr(product_id) /\ StartsWith(Upper(product_id.s), "P")
    THEN Returned(Upper(product_id.s))
    ELSE IF IsStr(product_id) /\ IsDigit(product_id.s)
    THEN IF IntParses(product_id.s)
         THEN Returned(<<"P">> \o Format03d(ParseInt(product_id.s)))
         ELSE ValueErrorRaised(product_id)
    ELSE InvalidProductId(product_id)

-----------------------------------------------------------------------------
(* PriceType, PriceEntry and PricingEngine *)

PriceType == {"PriceType.CUSTOMER", "PriceType.TIER", "PriceType.GROUP", "PriceType.NORMAL"}

\* PriceType(...).value
PriceTypeValue(source) ==
    CASE source = "PriceType.CUSTOMER" -> "CUSTOMER"
      [] source = "PriceType.TIER" -> "TIER"
      [] source = "PriceType.GROUP" -> "GROUP"
      [] source = "PriceType.NORMAL" -> "NORMAL"

PriceEntry(product_id, min_qty, price, source, key) ==
    [product_id |-> product_id, min_qty |-> min_qty, price |-> price,
     source |-> source, key |-> key]

PRIORITY(source) ==
    CASE source = "PriceType.CUSTOMER" -> 1
      [] source = "PriceType.TIER" -> 2
      [] source = "PriceType.GROUP" -> 3
      [] source = "PriceType.NORMAL" -> 4

\* dict.get(k): the value stored under k, None when k is not a key
DictGet(d, k) == IF k \in DOMAIN d THEN d[k] ELSE PyNone

\* a plausible slip: the min_qty threshold is not compared
IsApplicable_IgnoresMinQty(p, prod_code, quantity, customer_id, tier, group) ==
    /\ p.product_id = prod_code
    /\ \/ (p.source = "PriceType.CUSTOMER" /\ IsInt(p.key) /\ p.key = customer_id)
       \/ (p.source = "PriceType.TIER" /\ IsStr(p.key) /\ p.key = tier)
       \/ (p.source = "PriceType.GROUP" /\ IsStr(p.key) /\ p.key = group)
       \/ (p.source = "PriceType.NORMAL")

\* a plausible slip: the product code is not compared
IsApplicable_IgnoresProduct(p, prod_code, quantity, customer_id, tier, group) ==
    /\ quantity >= p.min_qty
    /\ \/ (p.source = "PriceType.CUSTOMER" /\ IsInt(p.key) /\ p.key = customer_id)
       \/ (p.source = "PriceType.TIER" /\ IsStr(p.key) /\ p.key = tier)
       \/ (p.source = "PriceType.GROUP" /\ IsStr(p.key) /\ p.key = group)
       \/ (p.source = "PriceType.NORMAL")

\* a plausible slip: the isinstance checks on the key are left out
IsApplicable_NoTypeCheck(p, prod_code, quantity, customer_id, tier, group) ==
    /\ p.product_id = prod_code
    /\ quantity >= p.min_qty
    /\ \/ (p.source = "PriceType.CUSTOMER" /\ p.key = customer_id)
       \/ (p.source = "PriceType.TIER" /\ p.key = tier)
       \/ (p.source = "PriceType.GROUP" /\ p.key = group)
       \/ (p.source = "PriceType.NORMAL")

\* the condition of the list comprehension that builds `applicable`
IsApplicable(p, prod_code, quantity, customer_id, tier, group) ==
    /\ p.product_id = prod_code
    /\ quantity >= p.min_qty
    /\ \/ (p.source = "PriceType.CUSTOMER" /\ IsInt(p.key) /\ p.key = customer_id)
       \/ (p.source = "PriceType.TIER" /\ IsStr(p.key) /\ p.key = tier)
       \/ (p.source = "PriceType.GROUP" /\ IsStr(p.key) /\ p.key = group)
       \/ (p.source = "PriceType.NORMAL")

\* the list `applicable`: the entries of self.prices that pass, in list order
Applicable(ps, tiers, groups, prod_code, quantity, customer_id) ==
    LET tier == DictGet(tiers, customer_id)
        group == DictGet(groups, customer_id)
    IN  SelectSeq(ps, LAMBDA p :
            IsApplicable(p, prod_code, quantity, customer_id, tier, group))

\* a plausible slip: the key of min() is the pair (price, priority)
SortKeyLess_PriceFirst(p, q) ==
    \/ p.price < q.price
    \/ (p.price = q.price /\ PRIORITY(p.source) < PRIORITY(q.source))

\* a plausible slip: the key of min() is the priority alone
SortKeyLess_PriorityOnly(p, q) == PRIORITY(p.source) < PRIORITY(q.source)

\* the key of min(): the pair (PRIORITY[p.source], p.price), compared as tuples
SortKeyLess(p, q) ==
    \/ PRIORITY(p.source) < PRIORITY(q.source)
    \/ (PRIORITY(p.source) = PRIORITY(q.source) /\ p.price < q.price)

\* a plausible slip: the first applicable entry is taken
MinByKey_FirstApplicable(applicable) == applicable[1]

\* min(applicable, key=...): the first element no other element is less than
MinByKey(applicable) ==
    LET minimal(k) == \A j \in 1..Len(applicable) : ~SortKeyLess(applicable[j], applicable[k])
        first == CHOOSE k \in 1..Len(applicable) :
                     minimal(k) /\ \A j \in 1..(k - 1) : ~minimal(j)
    IN  applicable[first]

QuantityError == [exc |-> "PricingError", msg |-> "Quantity must be greater than zero."]

NoPriceFound(prod_code, quantity) ==
    [exc |-> "PricingError", msg |-> "No price found for ", prod_code |-> prod_code,
     quantity |-> quantity]

PriceResult(best) ==
    Returned([product_id |-> best.product_id, price |-> best.price,
              price_type |-> PriceTypeValue(best.source)])

\* a plausible slip: the product code is normalized before the quantity is checked
get_best_price_NormalizesFirst(ps, tiers, groups, product_id, quantity, customer_id) ==
    LET normalized == normalize_product_code(product_id)
    IN  IF normalized.exc # "none" THEN normalized
        ELSE IF quantity <= 0 THEN QuantityError
        ELSE LET applicable == Applicable(ps, tiers, groups, normalized.value,
                                          quantity, customer_id)
             IN  IF applicable = <<>> THEN NoPriceFound(normalized.value, quantity)
                 ELSE PriceResult(MinByKey(applicable))

\* the outcome of get_best_price on an engine holding (ps, tiers, groups)
get_best_price(ps, tiers, groups, product_id, quantity, customer_id) ==
    IF quantity <= 0 THEN QuantityError
    ELSE LET normalized == normalize_product_code(product_id)
         IN  IF normalized.exc # "none" THEN normalized
             ELSE LET prod_code == normalized.value
                      applicable == Applicable(ps, tiers, groups, prod_code,
                                               quantity, customer_id)
                  IN  IF applicable = <<>> THEN NoPriceFound(prod_code, quantity)
                      ELSE PriceResult(MinByKey(applicable))

Call(product_id, quantity, customer_id) ==
    [product_id |-> product_id, quantity |-> quantity, customer_id |-> customer_id]

InitNormIdle ==
    /\ raw = PyNone
    /\ norm = NotCalled

\* a plausible slip: the filtered list is stored back into self.prices
GetBestPrice_KeepsFiltered(product_id, quantity, customer_id) ==
    LET normalized == normalize_product_code(product_id)
    IN  /\ history' = Append(history,
              [call |-> Call(product_id, quantity, customer_id),
               result |-> get_best_price(prices, customer_tiers, customer_groups,
                                         product_id, quantity, customer_id)])
        /\ prices' = IF quantity > 0 /\ normalized.exc = "none"
                     THEN Applicable(prices, customer_tiers, customer_groups,
                                     normalized.value, quantity, customer_id)
                     ELSE prices
        /\ UNCHANGED <<customer_tiers, customer_groups, raw, norm>>

\* one call of engine.get_best_price(product_id, quantity, customer_id); the
\* history records each call with what it returned or raised
GetBestPrice(product_id, quantity, customer_id) ==
    /\ history' = Append(history,
          [call |-> Call(product_id, quantity, customer_id),
           result |-> get_best_price(prices, customer_tiers, customer_groups,
                                     product_id, quantity, customer_id)])
    /\ UNCHANGED <<prices, customer_tiers, customer_groups, raw, norm>>

-----------------------------------------------------------------------------
(* Engines and single queries: every rule list of up to MaxRules entries   *)

MaxRules == 2

P001 == <<"P", "0", "0", "1">>

P002 == <<"P", "0", "0", "2">>

P003 == <<"P", "0", "0", "3">>

ProductCodes == {P001, P002}

\* (min_qty, price) of a rule: two prices at the lowest threshold, and the
\* lower price again from a quantity of 2
PriceBreaks == {<<1, 5>>, <<1, 10>>, <<2, 5>>}

\* customer_tiers and customer_groups of the tests and of main()
FixtureTiers == (PyInt(2) :> PyStr("GOLD")) @@ (PyInt(6) :> PyStr("SILVER"))

FixtureGroups == (PyInt(6) :> PyStr("GRP1"))

\* keys of the type their source expects
TypedScopes ==
    {<<"PriceType.CUSTOMER", PyInt(6)>>, <<"PriceType.TIER", PyStr("SILVER")>>,
     <<"PriceType.GROUP", PyStr("GRP1")>>, <<"PriceType.NORMAL", PyNone>>}

\* keys of another type: a str CUSTOMER key, absent TIER and GROUP keys
IllTypedScopes ==
    {<<"PriceType.CUSTOMER", PyStr("6")>>, <<"PriceType.TIER", PyNone>>,
     <<"PriceType.GROUP", PyNone>>}

RuleUniverse ==
    {PriceEntry(code, br[1], br[2], sc[1], sc[2]) :
        code \in ProductCodes, br \in PriceBreaks, sc \in TypedScopes}
    \cup {PriceEntry(P001, 1, 5, sc[1], sc[2]) : sc \in IllTypedScopes}

RECURSIVE ListsUpTo(_, _)
ListsUpTo(S, n) ==
    IF n = 0 THEN {<<>>}
    ELSE LET shorter == ListsUpTo(S, n - 1)
         IN  shorter \cup {Append(l, e) : l \in {x \in shorter : Len(x) = n - 1}, e \in S}

ProductInputs == {PyInt(1), PyStr(<<"p", "0", "0", "2">>), PyStr(<<"x">>)}

Quantities == {-1, 0, 1, 2}

\* customer 2 has a tier only, customer 6 a tier and a group, "6" has neither
CustomerIds == {PyInt(2), PyInt(6), PyStr("6")}

Init ==
    /\ prices \in ListsUpTo(RuleUniverse, MaxRules)
    /\ customer_tiers = FixtureTiers
    /\ customer_groups = FixtureGroups
    /\ history = <<>>
    /\ InitNormIdle

Next ==
    \E product_id \in ProductInputs, quantity \in Quantities, customer_id \in CustomerIds :
        /\ history = <<>>
        /\ GetBestPrice(product_id, quantity, customer_id)

Spec == Init /\ [][Next]_vars

-----------------------------------------------------------------------------
(* Sequences of queries on the engines of the tests and of main()          *)

MaxCalls == 3

\* `prices` of test_pricing_engine.py
TestPrices ==
    <<PriceEntry(P001, 1, 100, "PriceType.NORMAL", PyNone),
      PriceEntry(P002, 1, 10, "PriceType.NORMAL", PyNone),
      PriceEntry(P001, 3, 95, "PriceType.TIER", PyStr("GOLD")),
      PriceEntry(P003, 2, 50, "PriceType.GROUP", PyStr("GRP1")),
      PriceEntry(P002, 1, 5, "PriceType.CUSTOMER", PyInt(6))>>

\* `prices` of main()
MainPrices ==
    <<PriceEntry(P002, 1, 5, "PriceType.CUSTOMER", PyInt(6)),
      PriceEntry(P001, 3, 95, "PriceType.TIER", PyStr("GOLD")),
      PriceEntry(P003, 2, 50, "PriceType.GROUP", PyStr("GRP1")),
      PriceEntry(P001, 1, 120, "PriceType.NORMAL", PyNone),
      PriceEntry(P002, 1, 10, "PriceType.NORMAL", PyNone)>>

FrameProductInputs == {PyInt(1), PyInt(2), PyInt(3), PyStr(<<"x">>)}

FrameQuantities == {0, 1, 3}

FrameCustomerIds == {PyInt(2), PyInt(6)}

InitFrame ==
    /\ prices \in {TestPrices, MainPrices}
    /\ customer_tiers = FixtureTiers
    /\ customer_groups = FixtureGroups
    /\ history = <<>>
    /\ InitNormIdle

NextFrame ==
    \E product_id \in FrameProductInputs, quantity \in FrameQuantities,
       customer_id \in FrameCustomerIds :
        /\ Len(history) < MaxCalls
        /\ GetBestPrice(product_id, quantity, customer_id)

SpecFrame == InitFrame /\ [][NextFrame]_vars

-----------------------------------------------------------------------------
(* Inputs of the normalizer *)

MaxInt == 1100

MaxLen == 3

Alphabet == {"P", "p", "0", "1", "7", "x", "^2"}

RECURSIVE StringsUpTo(_)
StringsUpTo(n) ==
    IF n = 0 THEN {<<>>}
    ELSE LET shorter == StringsUpTo(n - 1)
         IN  shorter \cup {Append(cs, c) : cs \in {x \in shorter : Len(x) = n - 1}, c \in Alphabet}

RawInputs ==
    {PyInt(n) : n \in -MaxInt..MaxInt} \cup {PyStr(cs) : cs \in StringsUpTo(MaxLen)} \cup {PyNone}

\* no engine is constructed while the normalizer alone is exercised
InitEngineIdle ==
    /\ prices = <<>>
    /\ customer_tiers = <<>>
    /\ customer_groups = <<>>
    /\ history = <<>>

InitNorm ==
    /\ InitEngineIdle
    /\ raw \in RawInputs
    /\ norm = NotCalled

Normalize ==
    /\ norm = NotCalled
    /\ norm' = normalize_product_code(raw)
    /\ UNCHANGED <<prices, customer_tiers, customer_groups, history, raw>>

NextNorm == Normalize

SpecNorm == InitNorm /\ [][NextNorm]_vars

-----------------------------------------------------------------------------
(* Properties of normalize_product_code, under SpecNorm                     *)

\* the value of a string of decimal digits, most significant digit first
DecimalValue(cs) ==
    LET place[k \in 0..Len(cs)] == IF k = 0 THEN 0 ELSE 10 * place[k - 1] + DigitValue(cs[k])
    IN  place[Len(cs)]

IsDecimalString(cs) == \A k \in 1..Len(cs) : cs[k] \in DecimalDigits

NumDigits(n) == IF n < 10 THEN 1 ELSE IF n < 100 THEN 2 ELSE IF n < 1000 THEN 3 ELSE 4

\* "P" followed by n, zero-padded to at least 3 digits and never truncated
IsPaddedCode(code, n) ==
    /\ Len(code) = 1 + (IF NumDigits(n) < 3 THEN 3 ELSE NumDigits(n))
    /\ code[1] = "P"
    /\ IsDecimalString(Tail(code))
    /\ DecimalValue(Tail(code)) = n

\* "P" or "p" followed by a string of decimal digits
IsPrefixedDigits(cs) == Len(cs) >= 1 /\ cs[1] \in {"P", "p"} /\ IsDecimalString(Tail(cs))

\* the input with its leading letter in upper case and nothing else changed
IsUppercasedOriginal(code, cs) ==
    /\ Len(code) = Len(cs)
    /\ code[1] = "P"
    /\ \A k \in 2..Len(cs) : code[k] = cs[k]

AcceptedForm(v) ==
    \/ (IsInt(v) /\ v.i >= 0)
    \/ (IsStr(v) /\ IsPrefixedDigits(v.s))
    \/ (IsStr(v) /\ v.s # <<>> /\ IsDecimalString(v.s))

\* C7: every input that is not an integer n >= 0, not "P"/"p" followed by a
\* digit string and not a pure-digit string fails with InvalidProductIdentifier
\* carrying the raw input.
C7_RejectsEverythingElse ==
    (norm # NotCalled /\ ~AcceptedForm(raw)) => norm = InvalidProductId(raw)

-----------------------------------------------------------------------------
(* Properties of get_best_price on a single query, under Spec               *)

Called == history # <<>>

Last == history[Len(history)]

\* the canonical code the last query asks for
QueryCode == normalize_product_code(Last.call.product_id).value

ValidQuery ==
    /\ Called
    /\ Last.call.quantity > 0
    /\ normalize_product_code(Last.call.product_id).exc = "none"

Succeeded == Called /\ Last.result.exc = "none"

\* scope applicability as section 4.2 step 4 states it, keys type-checked
ScopeApplies(p, customer_id) ==
    CASE p.source = "PriceType.CUSTOMER" -> p.key.t = "int" /\ p.key = customer_id
      [] p.source = "PriceType.TIER" ->
            /\ customer_id \in DOMAIN customer_tiers
            /\ p.key.t = "str"
            /\ p.key = customer_tiers[customer_id]
      [] p.source = "PriceType.GROUP" ->
            /\ customer_id \in DOMAIN customer_groups
            /\ p.key.t = "str"
            /\ p.key = customer_groups[customer_id]
      [] p.source = "PriceType.NORMAL" -> TRUE

\* the rule is applicable to the last query
AppliesToLast(p) ==
    /\ p.product_id = QueryCode
    /\ p.min_qty <= Last.call.quantity
    /\ ScopeApplies(p, Last.call.customer_id)

Rules == {prices[k] : k \in 1..Len(prices)}

ApplicableRules == {p \in Rules : AppliesToLast(p)}

\* the source priority of a result's price_type tag
TagRank(tag) ==
    CASE tag = "CUSTOMER" -> 1 [] tag = "TIER" -> 2 [] tag = "GROUP" -> 3 [] tag = "NORMAL" -> 4

SourceTag(p) ==
    CASE p.source = "PriceType.CUSTOMER" -> "CUSTOMER"
      [] p.source = "PriceType.TIER" -> "TIER"
      [] p.source = "PriceType.GROUP" -> "GROUP"
      [] p.source = "PriceType.NORMAL" -> "NORMAL"

\* C1: the result has the smallest source priority among all applicable rules,
\* so an applicable CUSTOMER rule beats an applicable NORMAL rule at any price.
C1_SourcePrecedence ==
    ValidQuery =>
        \A p \in ApplicableRules :
            /\ Succeeded
            /\ TagRank(Last.result.value.price_type) <= TagRank(SourceTag(p))

C1_Witness ==
    /\ Succeeded
    /\ Last.result.value.price_type = "CUSTOMER"
    /\ Last.result.value.price = 10
    /\ \E p \in ApplicableRules : p.source = "PriceType.NORMAL" /\ p.price = 5

\* C2: no applicable rule of the result's source has a strictly lower price
\* than the price returned.
C2_TieBreakLowestPrice ==
    Succeeded =>
        \A p \in ApplicableRules :
            SourceTag(p) = Last.result.value.price_type => Last.result.value.price <= p.price

C2_Witness ==
    /\ Succeeded
    /\ Last.result.value.price = 5
    /\ Len(prices) = 2
    /\ prices[1].price = 10
    /\ prices[2].price = 5
    /\ \A p \in Rules : AppliesToLast(p) /\ SourceTag(p) = Last.result.value.price_type

\* C3: a quantity <= 0 fails with the quantity error whatever the product_id
\* and the rules are.
C3_InvalidQuantityFirst ==
    (Called /\ Last.call.quantity <= 0) =>
        /\ Last.result.exc = "PricingError"
        /\ Last.result.msg = "Quantity must be greater than zero."

C3_Witness ==
    /\ Called
    /\ Last.call.quantity <= 0
    /\ normalize_product_code(Last.call.product_id).exc # "none"
    /\ Last.result = QuantityError

\* C4: a valid query fails with NoPriceFound, naming the normalized code and
\* the quantity, exactly when no rule is applicable; it returns no price then.
C4_NoPriceFoundIffNoRule ==
    ValidQuery =>
        /\ (ApplicableRules = {}) <=>
               (Last.result = [exc |-> "PricingError", msg |-> "No price found for ",
                               prod_code |-> QueryCode, quantity |-> Last.call.quantity])
        /\ (ApplicableRules = {}) <=> ~Succeeded

\* scenario E: the scope matches and the quantity is below min_qty
C4_Witness ==
    /\ ValidQuery
    /\ Last.result.exc = "PricingError"
    /\ Last.call.quantity = 1
    /\ \E p \in Rules :
          /\ p.product_id = QueryCode
          /\ p.source = "PriceType.GROUP"
          /\ ScopeApplies(p, Last.call.customer_id)
          /\ p.min_qty = 2

\* C5: a successful result carries the code, price and source tag of a rule of
\* the rule set whose product code, min_qty and scope fit the query.
C5_ResultFromApplicableRule ==
    Succeeded =>
        /\ Last.result.value.price_type \in {"CUSTOMER", "TIER", "GROUP", "NORMAL"}
        /\ \E p \in Rules :
              /\ p.product_id = QueryCode
              /\ p.min_qty <= Last.call.quantity
              /\ ScopeApplies(p, Last.call.customer_id)
              /\ Last.result.value = [product_id |-> p.product_id, price |-> p.price,
                                      price_type |-> SourceTag(p)]

C5_Witness ==
    /\ Succeeded
    /\ Last.result.value.price = 10
    /\ \E p \in Rules :
          /\ p.product_id = QueryCode
          /\ ScopeApplies(p, Last.call.customer_id)
          /\ p.min_qty > Last.call.quantity
          /\ p.price = 5
          /\ TagRank(SourceTag(p)) < TagRank(Last.result.value.price_type)

\* a rule the key/scope type check keeps out for this customer
KeptOut(p, customer_id) ==
    \/ (p.source = "PriceType.TIER" /\ customer_id \notin DOMAIN customer_tiers)
    \/ (p.source = "PriceType.GROUP" /\ customer_id \notin DOMAIN customer_groups)
    \/ (p.source = "PriceType.CUSTOMER" /\ p.key.t # "int")

\* C9: TIER/GROUP rules for a customer absent from the mapping, and CUSTOMER
\* rules with a non-integer key, neither win nor prevent NoPriceFound: the
\* outcome is that of the same query on the rule list without them.
C9_KeyTypeCheck ==
    Called =>
        Last.result =
            get_best_price(SelectSeq(prices, LAMBDA p : ~KeptOut(p, Last.call.customer_id)),
                           customer_tiers, customer_groups,
                           Last.call.product_id, Last.call.quantity, Last.call.customer_id)

C9_Witness ==
    /\ ValidQuery
    /\ Last.result.exc = "PricingError"
    /\ \E p \in Rules :
          /\ p.product_id = QueryCode
          /\ p.min_qty <= Last.call.quantity
          /\ p.source = "PriceType.TIER"
          /\ p.key = PyNone
    /\ \E p \in Rules :
          /\ p.product_id = QueryCode
          /\ p.min_qty <= Last.call.quantity
          /\ p.source = "PriceType.CUSTOMER"
          /\ p.key = Last.call.customer_id

Permuted(l, f) == [k \in 1..Len(l) |-> l[f[k]]]

\* C10: the outcome of a query is the same for every permutation of the rule
\* list the engine was constructed with.
C10_OrderIndependence ==
    Called =>
        \A f \in Permutations(1..Len(prices)) :
            Last.result =
                get_best_price(Permuted(prices, f), customer_tiers, customer_groups,
                               Last.call.product_id, Last.call.quantity, Last.call.customer_id)

\* two different applicable rules tie on source and price
C10_Witness ==
    /\ Succeeded
    /\ Len(prices) = 2
    /\ prices[1] # prices[2]
    /\ \A p \in Rules :
          /\ AppliesToLast(p)
          /\ SourceTag(p) = Last.result.value.price_type
          /\ p.price = Last.result.value.price

-----------------------------------------------------------------------------
(* Properties of sequences of calls, under SpecFrame                        *)

\* C8: a call changes neither the rule list nor the two mappings, and it has
\* the outcome every earlier call with the same arguments had.
C8_ReadOnlyQuery ==
    [][/\ prices' = prices
       /\ customer_tiers' = customer_tiers
       /\ customer_groups' = customer_groups
       /\ \A k \in 1..Len(history) :
             history[k].call = history'[Len(history')].call =>
                 history[k].result = history'[Len(history')].result]_vars

\* a successful call, a failing call in between, and the first call again
C8_Witness ==
    /\ Len(history) = 3
    /\ history[1].call = history[3].call
    /\ history[2].call # history[1].call
    /\ history[1].result.exc = "none"
    /\ history[2].result.exc = "PricingError"
    /\ history[3].result = history[1].result

====
